---- MODULE Spec2Model ----
(***************************************************************************)
(* Model of Scripts/lvx_to_las.py: the decoder of Livox .lvx capture files *)
(* (process_package, process_frame), the chunking loop of process_lvx and  *)
(* the batch loop of main.                                                 *)
(*                                                                         *)
(* A capture file is a sequence of bytes (0..255).  Offsets are 0-based as *)
(* in the Python code; data[o] of the code is data[o + 1] here.            *)
(* A 32-bit float is represented by its IEEE-754 bit pattern.              *)
(***************************************************************************)
EXTENDS Integers, Sequences, FiniteSets, TLC

(***************************************************************************)
(* Layout constants of the code                                            *)
(***************************************************************************)
PublicHeaderSize == 24
FrameDurationSize == 4
DeviceCountSize == 1
DeviceInfoSize == 59
FramePrefixSize == 24
SubEntrySize == 14
SingleEntries == 96
DoubleEntries == 48
TripleEntries == 30
ImuPayloadSize == 24
UnknownSkipSize == 24

(***************************************************************************)
(* Bounds of the explored inputs                                           *)
(***************************************************************************)
MaxFrames == 3
MaxFramesPerOutput == 3
MaxShape == 5
MaxPattern == 2
TailBytes == 5
CutBytes == 20
ActiveEntries == 2

(***************************************************************************)
(* Python primitives                                                       *)
(***************************************************************************)
Min(a, b) == IF a < b THEN a ELSE b

\* data[a:b]: a slice never raises, it is cut at the end of the buffer
Slice(data, a, b) == SubSeq(data, a + 1, Min(b, Len(data)))

\* Python integers are unbounded.  Values of 2^30 and more are represented
\* by Huge: the unsigned fields are only compared with offsets, and every
\* offset is below Len(data) + a package size.
Huge == 64 * 16777216

RECURSIVE LittleEndian(_)
LittleEndian(bytes) ==
    IF bytes = <<>> THEN 0
    ELSE LET rest == LittleEndian(Tail(bytes))
         IN  IF rest >= 4194304 THEN Huge ELSE Head(bytes) + 256 * rest

\* struct.unpack('<I' / '<Q', bytes)[0]; the caller checks the length
Unpack(bytes) == LittleEndian(bytes)

RECURSIVE Pow256(_)
Pow256(n) == IF n = 0 THEN 1 ELSE 256 * Pow256(n - 1)

\* int.from_bytes(bytes, 'little', signed=True) of a slice of at most 4 bytes
FromBytesSigned(bytes) ==
    IF bytes = <<>> THEN 0
    ELSE LET n   == Len(bytes)
             top == bytes[n]
         IN  LittleEndian(SubSeq(bytes, 1, n - 1))
               + Pow256(n - 1) * (IF top >= 128 THEN top - 256 ELSE top)

None == <<>>

(***************************************************************************)
(* process_package                                                         *)
(***************************************************************************)
\* a test that looks at the coordinates only
IsSentinelCoordsOnly(x, y, z, reflectivity) ==
    x = 0 /\ y = 0 /\ z = 0

\* the test of lines 47, 63, 65, 86, 88, 90
IsSentinel(x, y, z, reflectivity) ==
    x = 0 /\ y = 0 /\ z = 0 /\ reflectivity = 0

\* one 14-byte sub-entry read at offset o, tagged with return number rn
SubEntry(data, o, rn) ==
    << FromBytesSigned(Slice(data, o, o + 4)),
       FromBytesSigned(Slice(data, o + 4, o + 8)),
       FromBytesSigned(Slice(data, o + 8, o + 12)),
       data[o + 12 + 1],
       rn >>

\* return numbers counted over the sub-entries that pass the filter
EntryPointsRenumbered(data, offset, returns) ==
    LET kept == SelectSeq([j \in 1..returns |->
                              SubEntry(data, offset + SubEntrySize * (j - 1),
                                       j)],
                          LAMBDA p : ~IsSentinel(p[1], p[2], p[3], p[4]))
    IN  [i \in 1..Len(kept) |->
            <<kept[i][1], kept[i][2], kept[i][3], kept[i][4], i>>]

\* the points one entry of `returns` sub-entries appends, in order
EntryPoints(data, offset, returns) ==
    SelectSeq([j \in 1..returns |->
                  SubEntry(data, offset + SubEntrySize * (j - 1), j)],
              LAMBDA p : ~IsSentinel(p[1], p[2], p[3], p[4]))

\* the points appended by the iterations first .. first + count - 1 of the
\* for loops of lines 40, 51, 69, in order (the range is split in halves to
\* keep the evaluation shallow)
RECURSIVE EntriesPoints(_, _, _, _, _)
EntriesPoints(data, offset, returns, first, count) ==
    IF count = 0 THEN <<>>
    ELSE IF count = 1
    THEN EntryPoints(data, offset + SubEntrySize * returns * first, returns)
    ELSE EntriesPoints(data, offset, returns, first, count \div 2)
           \o EntriesPoints(data, offset, returns, first + count \div 2,
                            count - count \div 2)

\* an offset that moves by the bytes of the appended points only
DecodeEntriesByPoints(data, offset, entries, returns) ==
    IF offset + SubEntrySize * returns * entries > Len(data)
    THEN [exc |-> "IndexError", points |-> <<>>, imu |-> None,
          offset |-> offset]
    ELSE LET points == EntriesPoints(data, offset, returns, 0, entries)
         IN  [exc |-> "none", points |-> points, imu |-> None,
              offset |-> offset + SubEntrySize * Len(points)]

\* the for loops of lines 40, 51, 69 over `entries` entries.  Iteration i
\* raises IndexError at data[offset+12], data[offset+13], ... when its entry
\* is not wholly in the buffer; some iteration does iff the last one does.
DecodeEntries(data, offset, entries, returns) ==
    IF offset + SubEntrySize * returns * entries > Len(data)
    THEN [exc |-> "IndexError", points |-> <<>>, imu |-> None,
          offset |-> offset]
    ELSE [exc |-> "none",
          points |-> EntriesPoints(data, offset, returns, 0, entries),
          imu |-> None,
          offset |-> offset + SubEntrySize * returns * entries]

\* number of entries and of returns per entry of a point dataType
EntriesOf(data_type) ==
    CASE data_type = 2 -> SingleEntries
      [] data_type = 4 -> DoubleEntries
      [] data_type = 7 -> TripleEntries

ReturnsOf(data_type) ==
    CASE data_type = 2 -> 1
      [] data_type = 4 -> 2
      [] data_type = 7 -> 3

\* size of the package header the code steps over (lines 16-33)
PackageHeaderSize == 1 + 1 + 1 + 1 + 1 + 4 + 1 + 1 + 8

\* the exception, if any, raised while reading the package header
HeaderExc(data, offset) ==
    IF offset + 4 >= Len(data) THEN "IndexError"
    ELSE IF offset + 9 > Len(data) THEN "struct.error"
    ELSE IF offset + 10 >= Len(data) THEN "IndexError"
    ELSE IF offset + 19 > Len(data) THEN "struct.error"
    ELSE "none"

\* an IMU record that loses the timestamp of the package
ImuRecordNoTimestamp(data, offset, timestamp) ==
    <<0>> \o
    [k \in 1..6 |-> Unpack(Slice(data, offset + 4 * (k - 1), offset + 4 * k))]

\* the IMU record of line 96
ImuRecord(data, offset, timestamp) ==
    <<timestamp>> \o
    [k \in 1..6 |-> Unpack(Slice(data, offset + 4 * (k - 1), offset + 4 * k))]

Raised(e, offset) ==
    [exc |-> e, points |-> <<>>, imu |-> None, offset |-> offset]

\* an unrecognized dataType that leaves the offset where the package began
ProcessPackageNoSkip(data, offset) ==
    IF HeaderExc(data, offset) # "none"
    THEN Raised(HeaderExc(data, offset), offset)
    ELSE
      LET data_type == data[offset + 10 + 1]
          timestamp == Unpack(Slice(data, offset + 11, offset + 19))
          payload   == offset + PackageHeaderSize
      IN  IF data_type \in {2, 4, 7}
          THEN DecodeEntries(data, payload, EntriesOf(data_type),
                             ReturnsOf(data_type))
          ELSE IF data_type = 6
          THEN IF payload + ImuPayloadSize > Len(data)
               THEN Raised("struct.error", payload)
               ELSE [exc |-> "none", points |-> <<>>,
                     imu |-> ImuRecord(data, payload, timestamp),
                     offset |-> payload + ImuPayloadSize]
          ELSE [exc |-> "none", points |-> <<>>, imu |-> None,
                offset |-> offset]

ProcessPackage(data, offset) ==
    IF HeaderExc(data, offset) # "none"
    THEN Raised(HeaderExc(data, offset), offset)
    ELSE
      LET data_type == data[offset + 10 + 1]
          timestamp == Unpack(Slice(data, offset + 11, offset + 19))
          payload   == offset + PackageHeaderSize
      IN  IF data_type \in {2, 4, 7}
          THEN DecodeEntries(data, payload, EntriesOf(data_type),
                             ReturnsOf(data_type))
          ELSE IF data_type = 6
          THEN IF payload + ImuPayloadSize > Len(data)
               THEN Raised("struct.error", payload)
               ELSE [exc |-> "none", points |-> <<>>,
                     imu |-> ImuRecord(data, payload, timestamp),
                     offset |-> payload + ImuPayloadSize]
          ELSE [exc |-> "none", points |-> <<>>, imu |-> None,
                offset |-> payload + UnknownSkipSize]

(***************************************************************************)
(* Capture files.  A file of the input folder is described by a recipe     *)
(* [nframes, shape, tail, defect]; FileBytes gives its bytes in the layout *)
(* the code reads: public header, frame duration, device count, device     *)
(* records, frames of packages, and `tail` bytes after the last frame.     *)
(* `shape` selects the packages of the frames and the number of device     *)
(* records, `pat` the contents of the payloads, `defect` a malformation.   *)
(***************************************************************************)
Defects == {"none", "nextzero", "nextshort", "nextlong", "cut", "devshort",
            "hdrcut"}

\* 14-byte sub-entries: x, y, z (little-endian int32), reflectivity, tag
Palette == <<
    <<232, 3, 0, 0,  208, 7, 0, 0,  184, 11, 0, 0,  50, 0>>,
    <<0, 0, 0, 0,  0, 0, 0, 0,  0, 0, 0, 0,  0, 0>>,
    <<0, 0, 0, 0,  0, 0, 0, 0,  0, 0, 0, 0,  7, 0>>,
    <<255, 255, 255, 255,  0, 0, 0, 0,  0, 0, 0, 0,  0, 1>>,
    <<0, 0, 0, 0,  0, 0, 0, 0,  0, 0, 0, 0,  0, 3>>,
    <<0, 0, 0, 0,  0, 0, 0, 0,  0, 0, 0, 1,  0, 0>> >>

\* six floats 0.1, 0.2, 0.3, 1.0, 2.0, 3.0, little-endian
ImuFloats == <<205, 204, 204, 61,  205, 204, 76, 62,  154, 153, 153, 62,
               0, 0, 128, 63,  0, 0, 0, 64,  0, 0, 64, 64>>

\* the dataTypes of the packages of a frame, by frame shape
PackageLists == << <<2>>, <<6>>, <<4, 6>>, <<7>>, <<0>>, <<>>, <<6, 3, 6>> >>

PackagesOf(shape, k) == PackageLists[((shape + k) % Len(PackageLists)) + 1]

\* v < 2^24 as `width` little-endian bytes
ToLittleEndian(v, width) ==
    [b \in 1..width |->
        IF b = 1 THEN v % 256
        ELSE IF b = 2 THEN (v \div 256) % 256
        ELSE IF b = 3 THEN (v \div 65536) % 256
        ELSE 0]

\* the sub-entry s (0-based) of a point payload: the first ActiveEntries
\* entries and the last one run through the palette, the others are
\* sentinels; every fourth pattern is a payload of sentinels only
PaletteIndex(pat, s, entries, returns) ==
    IF pat % 4 # 3
       /\ ((s \div returns) < ActiveEntries \/ (s \div returns) = entries - 1)
    THEN ((pat + s) % Len(Palette)) + 1
    ELSE 2

PayloadBytes(data_type, pat) ==
    IF data_type \in {2, 4, 7}
    THEN [b \in 1..(EntriesOf(data_type) * ReturnsOf(data_type) * SubEntrySize)
            |-> Palette[PaletteIndex(pat, (b - 1) \div SubEntrySize,
                                     EntriesOf(data_type),
                                     ReturnsOf(data_type))]
                       [((b - 1) % SubEntrySize) + 1]]
    ELSE IF data_type = 6
    THEN [b \in 1..ImuPayloadSize |->
            IF b = 1 THEN (ImuFloats[1] + pat) % 256 ELSE ImuFloats[b]]
    ELSE [b \in 1..UnknownSkipSize |-> 9]

PackageBytes(data_type, pat, timestamp) ==
    <<0, 5, 1, 1, 0>> \o ToLittleEndian(0, 4) \o <<1, data_type>>
      \o ToLittleEndian(timestamp, 8) \o PayloadBytes(data_type, pat)

RECURSIVE PackagesBytes(_, _, _)
PackagesBytes(types, pat, timestamp) ==
    IF types = <<>> THEN <<>>
    ELSE PackageBytes(Head(types), pat, timestamp)
           \o PackagesBytes(Tail(types), pat + 1, timestamp + 1)

\* the declared nextOffset of a frame whose packages end at frame_end
DeclaredNext(defect, k, frame_end) ==
    IF k # 0 THEN frame_end
    ELSE CASE defect = "nextzero"  -> 0
           [] defect = "nextshort" -> frame_end - 10
           [] defect = "nextlong"  -> frame_end + 30
           [] OTHER                -> frame_end

RECURSIVE FramesBytes(_, _, _, _, _, _)
FramesBytes(k, nframes, shape, pat, start, defect) ==
    IF k = nframes THEN <<>>
    ELSE LET packages  == PackagesBytes(PackagesOf(shape, k), pat + k,
                                        100 + 10 * k)
             frame_end == start + FramePrefixSize + Len(packages)
         IN  ToLittleEndian(start, 8)
               \o ToLittleEndian(DeclaredNext(defect, k, frame_end), 8)
               \o ToLittleEndian(k, 8)
               \o packages
               \o FramesBytes(k + 1, nframes, shape, pat, frame_end,
                              defect)

DevicesOf(recipe) == recipe.shape % 2

DeclaredDevices(recipe) ==
    IF recipe.defect = "devshort" THEN DevicesOf(recipe) + 1
    ELSE DevicesOf(recipe)

FileBytes(recipe) ==
    LET header == [b \in 1..PublicHeaderSize |-> 76]
                    \o ToLittleEndian(50, FrameDurationSize)
                    \o <<DeclaredDevices(recipe)>>
                    \o [b \in 1..(DevicesOf(recipe) * DeviceInfoSize) |-> 1]
        whole  == header
                    \o FramesBytes(0, recipe.nframes, recipe.shape,
                                   recipe.pat, Len(header), recipe.defect)
                    \o [b \in 1..recipe.tail |-> 170]
    IN  CASE recipe.defect = "cut" ->
               SubSeq(whole, 1, Len(whole) - CutBytes)
          [] recipe.defect = "hdrcut" ->
               SubSeq(whole, 1, 28 - 8 * (recipe.shape % 2))
          [] OTHER -> whole

\* well-formed files, and files with one defect
Recipes ==
    [nframes : 0..MaxFrames, shape : 0..MaxShape, pat : 0..MaxPattern,
     tail : {0, TailBytes}, defect : {"none"}]
    \cup
    [nframes : 0..MaxFrames, shape : 0..MaxShape, pat : {0}, tail : {0},
     defect : Defects \ {"none"}]

\* the folders explored: one file of any recipe, or two short files
PairRecipes ==
    {r \in Recipes : r.nframes = 1 /\ r.shape \in {0, 1} /\ r.pat = 0
                       /\ r.tail = 0 /\ r.defect \in {"none", "cut"}}

Folders ==
    {<<r>> : r \in Recipes} \cup {<<r, q>> : r \in PairRecipes, q \in PairRecipes}

(***************************************************************************)
(* State                                                                   *)
(***************************************************************************)
VARIABLES
    folder,             \* the .lvx files of input_folder, in sorted order
    frames_per_output,  \* args.frames_per_output
    file_index,         \* position of main's for loop in the folder (1-based)
    pc,                 \* where the program stands
    exc,                \* the uncaught exception, "none" while running
    data,               \* process_lvx: the bytes of the current file
    offset,
    frame_duration,
    device_count,
    total_frames,
    chunk_index,
    overall_imu,
    chunk_points,
    chunk_imu,
    all_points,
    all_imu,
    next_offset,        \* frame_end of process_frame
    frame_points,
    frame_imu,
    pts,                \* process_frame: result of the last process_package
    imu,                \*   of the current frame
    outputs,            \* the calls of create_las_from_points / write_imu_csv
    package_offset,     \* history: offset passed to the last process_package
                        \*   of the current frame
    frame_log,          \* history: what process_frame returned, per frame
    package_log,        \* history: frame and offset of every process_package
                        \*   call of the current file that returned
    finished            \* history: number of files process_lvx returned from

main_vars == <<folder, frames_per_output, file_index, finished>>
file_vars == <<data, frame_duration, device_count>>
chunk_vars == <<total_frames, chunk_index, overall_imu, chunk_points,
                chunk_imu, all_points, all_imu, frame_log>>
frame_vars == <<next_offset, frame_points, frame_imu, pts, imu,
                package_offset>>

vars == <<folder, frames_per_output, file_index, pc, exc, data, offset,
          frame_duration, device_count, total_frames, chunk_index,
          overall_imu, chunk_points, chunk_imu, all_points, all_imu,
          next_offset, frame_points, frame_imu, pts, imu, outputs,
          package_offset, frame_log, package_log, finished>>

Init ==
    /\ folder \in Folders
    /\ frames_per_output \in 0..MaxFramesPerOutput
    /\ file_index = 1
    /\ pc = "main"
    /\ exc = "none"
    /\ data = <<>>
    /\ offset = 0
    /\ frame_duration = 0
    /\ device_count = 0
    /\ total_frames = 0
    /\ chunk_index = 0
    /\ overall_imu = <<>>
    /\ chunk_points = <<>>
    /\ chunk_imu = <<>>
    /\ all_points = <<>>
    /\ all_imu = <<>>
    /\ next_offset = 0
    /\ frame_points = <<>>
    /\ frame_imu = <<>>
    /\ pts = <<>>
    /\ imu = None
    /\ outputs = <<>>
    /\ package_offset = 0
    /\ frame_log = <<>>
    /\ package_log = <<>>
    /\ finished = 0

(***************************************************************************)
(* Helpers of the actions                                                  *)
(***************************************************************************)
\* items put in front of the list
ExtendFront(list, items) == items \o list

\* list.extend
Extend(list, items) == list \o items

\* a return of the declared frame end in place of the offset reached
FrameReturnDeclared(off, frame_end) == frame_end

\* line 116: the offset process_frame returns is the one its loop reached
FrameReturnOffset(off, frame_end) == off

\* the flush test of line 196
ShouldFlush(frames, per_output, off, length) ==
    frames % per_output = 0 \/ off >= length

\* a buffer that is not cleared
ResetChunkKept(buffer) == buffer

\* lines 203-204: the buffer a chunk starts with after an emission
ResetChunk(buffer) == <<>>

\* the overall list without the assignment of line 211
OverallImuKept(per_output, overall, all) == overall

\* lines 206-211: the IMU records written to the overall csv
OverallImu(per_output, overall, all) ==
    IF per_output = 0 THEN all ELSE overall

\* one call of create_las_from_points or write_imu_csv; a call with no rows
\* prints a message and writes no file (lines 120-122, 138-140)
Call(fn, name, rows) ==
    [fn |-> fn, file |-> file_index, name |-> name, rows |-> rows,
     written |-> rows # <<>>]

\* main has no exception handler: an exception raised in process_lvx ends
\* the program
Crash(e) ==
    /\ pc' = "crashed"
    /\ exc' = e

(***************************************************************************)
(* Actions                                                                 *)
(***************************************************************************)
\* main, lines 232-236, and the read of the file, lines 154-158
NextFile ==
    /\ pc = "main"
    /\ file_index <= Len(folder)
    /\ data' = FileBytes(folder[file_index])
    /\ pc' = "header"
    /\ UNCHANGED <<main_vars, exc, offset, frame_duration, device_count,
                   chunk_vars, frame_vars, outputs, package_log>>

\* main, the for loop is exhausted
MainExit ==
    /\ pc = "main"
    /\ file_index > Len(folder)
    /\ pc' = "exit"
    /\ UNCHANGED <<main_vars, exc, file_vars, offset, chunk_vars, frame_vars,
                   outputs, package_log>>

\* process_lvx, lines 160-174
ParseHeader ==
    /\ pc = "header"
    /\ IF Len(data) < PublicHeaderSize + FrameDurationSize
       THEN /\ Crash("struct.error")
            /\ UNCHANGED <<offset, frame_duration, device_count, chunk_vars,
                           package_log>>
       ELSE IF Len(data) <= PublicHeaderSize + FrameDurationSize
       THEN /\ Crash("IndexError")
            /\ UNCHANGED <<offset, frame_duration, device_count, chunk_vars,
                           package_log>>
       ELSE /\ frame_duration' =
                  Unpack(Slice(data, PublicHeaderSize,
                               PublicHeaderSize + FrameDurationSize))
            /\ device_count' =
                  data[PublicHeaderSize + FrameDurationSize + 1]
            /\ offset' = 24 + 4 + 1 + device_count' * DeviceInfoSize
            /\ total_frames' = 0
            /\ chunk_index' = 0
            /\ overall_imu' = <<>>
            /\ chunk_points' = <<>>
            /\ chunk_imu' = <<>>
            /\ all_points' = <<>>
            /\ all_imu' = <<>>
            /\ frame_log' = <<>>
            /\ package_log' = <<>>
            /\ pc' = "loop"
            /\ exc' = exc
    /\ UNCHANGED <<main_vars, data, frame_vars, outputs>>

\* process_lvx, lines 177-184: the loop test, the break, the frame prefix
\* and the entry into process_frame (lines 108-109)
ReadFramePrefix ==
    /\ pc = "loop"
    /\ IF offset < Len(data) /\ ~(offset + FramePrefixSize > Len(data))
       THEN /\ next_offset' = Unpack(Slice(data, offset + 8, offset + 16))
            /\ offset' = offset + 8 + 8 + 8
            /\ frame_points' = <<>>
            /\ frame_imu' = <<>>
            /\ pts' = <<>>
            /\ imu' = None
            /\ package_offset' = offset'
            /\ pc' = "frame"
       ELSE /\ pc' = "final"
            /\ UNCHANGED frame_vars
            /\ UNCHANGED offset
    /\ UNCHANGED <<main_vars, exc, file_vars, chunk_vars, outputs,
                   package_log>>

\* process_frame, lines 110-115: one iteration of the while loop
DecodePackage ==
    /\ pc = "frame"
    /\ offset < next_offset
    /\ package_offset' = offset
    /\ LET r == ProcessPackage(data, offset)
       IN  IF r.exc # "none"
           THEN /\ Crash(r.exc)
                /\ UNCHANGED <<offset, pts, imu, frame_points, frame_imu,
                               package_log>>
           ELSE /\ pts' = r.points
                /\ imu' = r.imu
                /\ offset' = r.offset
                /\ frame_points' = IF r.points # <<>>
                                   THEN Extend(frame_points, r.points)
                                   ELSE frame_points
                /\ frame_imu' = IF r.imu # None
                                THEN Append(frame_imu, r.imu)
                                ELSE frame_imu
                /\ package_log' =
                      Append(package_log,
                             [frame |-> total_frames, offset |-> offset])
                /\ UNCHANGED <<pc, exc>>
    /\ UNCHANGED <<main_vars, file_vars, chunk_vars, next_offset, outputs>>

\* process_frame returns (line 116); process_lvx, lines 184-204
FrameDone ==
    /\ pc = "frame"
    /\ ~(offset < next_offset)
    /\ offset' = FrameReturnOffset(offset, next_offset)
    /\ total_frames' = total_frames + 1
    /\ frame_log' = Append(frame_log,
                           [points |-> frame_points, imu |-> frame_imu])
    /\ IF frames_per_output = 0
       THEN /\ all_points' = Extend(all_points, frame_points)
            /\ all_imu' = Extend(all_imu, frame_imu)
            /\ UNCHANGED <<chunk_points, chunk_imu, overall_imu, chunk_index,
                           outputs>>
       ELSE /\ overall_imu' = Extend(overall_imu, frame_imu)
            /\ UNCHANGED <<all_points, all_imu>>
            /\ IF ShouldFlush(total_frames', frames_per_output, offset',
                              Len(data))
               THEN /\ outputs' = outputs \o
                         << Call("las", <<"chunk", chunk_index>>,
                                 Extend(chunk_points, frame_points)),
                            Call("csv", <<"imu_chunk", chunk_index>>,
                                 Extend(chunk_imu, frame_imu)) >>
                    /\ chunk_index' = chunk_index + 1
                    /\ chunk_points' =
                          ResetChunk(Extend(chunk_points, frame_points))
                    /\ chunk_imu' = ResetChunk(Extend(chunk_imu, frame_imu))
               ELSE /\ chunk_points' = Extend(chunk_points, frame_points)
                    /\ chunk_imu' = Extend(chunk_imu, frame_imu)
                    /\ UNCHANGED <<chunk_index, outputs>>
    /\ pc' = "loop"
    /\ UNCHANGED <<main_vars, exc, file_vars, frame_vars, package_log>>

\* process_lvx, lines 206-217
Finish ==
    /\ pc = "final"
    /\ overall_imu' = OverallImu(frames_per_output, overall_imu, all_imu)
    /\ outputs' = outputs
         \o ( IF frames_per_output = 0
              THEN << Call("las", <<"All">>, all_points),
                      Call("csv", <<"All">>, all_imu) >>
              ELSE <<>> )
         \o << Call("csv", <<"imu_overall">>, overall_imu') >>
    /\ pc' = "done"
    /\ UNCHANGED <<main_vars, exc, file_vars, offset, total_frames,
                   chunk_index, chunk_points, chunk_imu, all_points, all_imu,
                   frame_log, frame_vars, package_log>>

\* process_lvx returns to the for loop of main
Return ==
    /\ pc = "done"
    /\ file_index' = file_index + 1
    /\ finished' = finished + 1
    /\ pc' = "main"
    /\ UNCHANGED <<folder, frames_per_output, exc, file_vars, offset,
                   chunk_vars, frame_vars, outputs, package_log>>

Next ==
    \/ NextFile
    \/ MainExit
    \/ ParseHeader
    \/ ReadFramePrefix
    \/ DecodePackage
    \/ FrameDone
    \/ Finish
    \/ Return

Spec == Init /\ [][Next]_vars

(***************************************************************************)
(* Vocabulary of the properties                                            *)
(***************************************************************************)
\* process_lvx is working on the file at file_index, header parsed
InFile == pc \in {"loop", "frame", "final", "done"}

\* process_package has returned normally in the current frame
AfterPackage == pc = "frame" /\ package_offset < offset

\* the dataType of the package decoded last
LastDataType == data[package_offset + 10 + 1]

\* concatenation of the point lists, of the IMU lists, of a frame log
RECURSIVE FlatPoints(_)
FlatPoints(log) ==
    IF log = <<>> THEN <<>>
    ELSE IF Len(log) = 1 THEN log[1].points
    ELSE FlatPoints(SubSeq(log, 1, Len(log) \div 2))
           \o FlatPoints(SubSeq(log, Len(log) \div 2 + 1, Len(log)))

RECURSIVE FlatImu(_)
FlatImu(log) ==
    IF log = <<>> THEN <<>>
    ELSE IF Len(log) = 1 THEN log[1].imu
    ELSE FlatImu(SubSeq(log, 1, Len(log) \div 2))
           \o FlatImu(SubSeq(log, Len(log) \div 2 + 1, Len(log)))

\* total number of rows of a sequence of calls
RECURSIVE SumRows(_)
SumRows(calls) ==
    IF calls = <<>> THEN 0
    ELSE IF Len(calls) = 1 THEN Len(calls[1].rows)
    ELSE SumRows(SubSeq(calls, 1, Len(calls) \div 2))
           + SumRows(SubSeq(calls, Len(calls) \div 2 + 1, Len(calls)))

\* the calls made so far for the current file
FileOutputs == SelectSeq(outputs, LAMBDA o : o.file = file_index)

ChunkLas ==
    SelectSeq(FileOutputs, LAMBDA o : o.fn = "las" /\ o.name[1] = "chunk")

ChunkCsv ==
    SelectSeq(FileOutputs, LAMBDA o : o.fn = "csv" /\ o.name[1] = "imu_chunk")

OverallCsv ==
    SelectSeq(FileOutputs, LAMBDA o : o.name = <<"imu_overall">>)

CeilDiv(a, b) == (a + b - 1) \div b

\* the frames (1-based positions in frame_log) of chunk k of a file of
\* f frames, n frames per chunk
ChunkFrames(log, k, n) == SubSeq(log, k * n + 1, Min((k + 1) * n, Len(log)))

\* the sub-entries (0-based) of the package at package_offset whose x, y, z
\* and reflectivity bytes are not all zero
RawSubEntries == EntriesOf(LastDataType) * ReturnsOf(LastDataType)

RawNonZero(sub) ==
    \E b \in 0..12 :
        data[package_offset + PackageHeaderSize + SubEntrySize * sub + b + 1]
            # 0

RawKept == SelectSeq([i \in 1..RawSubEntries |-> i - 1], RawNonZero)

IsZeroPoint(p) == p[1] = 0 /\ p[2] = 0 /\ p[3] = 0 /\ p[4] = 0

(***************************************************************************)
(* C1: a file traversed to the end with frames_per_output = N > 0 and F    *)
(* frames has made exactly ceil(F / N) chunk emissions.                    *)
(***************************************************************************)
C1_ChunkCount ==
    (pc = "done" /\ frames_per_output > 0)
        => /\ chunk_index = CeilDiv(total_frames, frames_per_output)
           /\ Len(ChunkLas) = CeilDiv(total_frames, frames_per_output)

(***************************************************************************)
(* C2: with N > 0 the point counts of the emitted chunks add up to the     *)
(* number of points of all decoded frames, which is what N = 0 emits.      *)
(***************************************************************************)
C2_PointsPreserved ==
    (pc = "done" /\ frames_per_output > 0)
        => SumRows(ChunkLas) = Len(FlatPoints(frame_log))

(***************************************************************************)
(* C3: a decode failure aborts only its file; when the program ends every  *)
(* file of the folder has been taken up.                                   *)
(***************************************************************************)
C3_BatchContinues ==
    pc \in {"exit", "crashed"} => file_index >= Len(folder)

(***************************************************************************)
(* C4: process_frame never returns with an offset beyond the declared      *)
(* frame end, and process_package never returns points of a payload that   *)
(* reaches beyond the buffer.                                              *)
(***************************************************************************)
C4_BoundsRespected ==
    /\ (pc = "loop" /\ frame_log # <<>>) => offset <= next_offset
    /\ (AfterPackage /\ pts # <<>>) => offset <= Len(data)

(***************************************************************************)
(* C5: header parsing fails when the buffer is shorter than the fixed      *)
(* header plus deviceCount * 59; no such file is processed as a file of    *)
(* zero frames.                                                            *)
(***************************************************************************)
C5_ShortDeviceTable ==
    InFile => Len(data) >= PublicHeaderSize + FrameDurationSize
                             + DeviceCountSize + device_count * DeviceInfoSize

(***************************************************************************)
(* C6: no returned, accumulated or emitted point is the sentinel           *)
(* (0, 0, 0, intensity 0), and a package of dataType 2, 4 or 7 returns one *)
(* point for every sub-entry whose coordinate and reflectivity bytes are   *)
(* not all zero.                                                           *)
(***************************************************************************)
C6_NoSentinel ==
    /\ \A list \in {pts, frame_points, chunk_points, all_points} :
           \A i \in 1..Len(list) : ~IsZeroPoint(list[i])
    /\ \A c \in 1..Len(outputs) :
           outputs[c].fn = "las" =>
               \A i \in 1..Len(outputs[c].rows) :
                   ~IsZeroPoint(outputs[c].rows[i])
    /\ (AfterPackage /\ LastDataType \in {2, 4, 7})
           => Len(pts) = Len(RawKept)

C6_Witness ==
    /\ AfterPackage
    /\ LastDataType \in {2, 4, 7}
    /\ Len(RawKept) < RawSubEntries
    /\ \E i \in 1..Len(pts) :
           pts[i][1] = 0 /\ pts[i][2] = 0 /\ pts[i][3] = 0 /\ pts[i][4] # 0
    /\ \E i \in 1..Len(pts) : pts[i][1] # 0 /\ pts[i][4] = 0

(***************************************************************************)
(* C7: the m-th returned point of a package is the m-th non-sentinel       *)
(* sub-entry and carries that sub-entry's position in its entry as         *)
(* returnNumber: 1 for dataType 2, 1..2 for dataType 4, 1..3 for 7.        *)
(***************************************************************************)
C7_ReturnNumber ==
    (AfterPackage /\ LastDataType \in {2, 4, 7})
        => /\ Len(pts) = Len(RawKept)
           /\ \A m \in 1..Len(pts) :
                 /\ pts[m][5] = (RawKept[m] % ReturnsOf(LastDataType)) + 1
                 /\ pts[m][5] \in 1..ReturnsOf(LastDataType)

\* a third return that follows a first return: the second one was a sentinel
C7_Witness ==
    /\ AfterPackage
    /\ LastDataType = 7
    /\ \E m \in 2..Len(pts) : pts[m][5] = 3 /\ pts[m - 1][5] = 1

(***************************************************************************)
(* C8: with frames_per_output = 0 nothing is emitted while the frames are  *)
(* traversed; at the end one chunk is emitted with the points and the IMU  *)
(* samples of all frames in frame order.                                   *)
(***************************************************************************)
AllCalls == SelectSeq(FileOutputs, LAMBDA o : o.name = <<"All">>)

C8_SingleChunk ==
    frames_per_output = 0 =>
        /\ pc \in {"loop", "frame", "final"} => FileOutputs = <<>>
        /\ pc = "done" =>
              /\ ChunkLas = <<>> /\ ChunkCsv = <<>>
              /\ Len(AllCalls) = 2
              /\ AllCalls[1].fn = "las"
              /\ AllCalls[1].rows = FlatPoints(frame_log)
              /\ AllCalls[2].fn = "csv"
              /\ AllCalls[2].rows = FlatImu(frame_log)

C8_Witness ==
    /\ frames_per_output = 0
    /\ pc = "done"
    /\ Len(frame_log) = 3
    /\ frame_log[1].points # <<>>
    /\ frame_log[3].points # <<>>
    /\ frame_log[1].points # frame_log[3].points
    /\ frame_log[2].imu # <<>>
    /\ frame_log[3].imu # <<>>
    /\ frame_log[2].imu # frame_log[3].imu

(***************************************************************************)
(* C9: for every frames_per_output, a file traversed to the end gets one   *)
(* overall-IMU emission, after all frames and after every other emission,  *)
(* holding the IMU samples of all frames in frame order.                   *)
(***************************************************************************)
C9_OverallImu ==
    /\ pc \in {"loop", "frame", "final"} => OverallCsv = <<>>
    /\ pc = "done" =>
          /\ Len(OverallCsv) = 1
          /\ outputs[Len(outputs)] = OverallCsv[1]
          /\ OverallCsv[1].fn = "csv"
          /\ OverallCsv[1].rows = FlatImu(frame_log)

\* IMU samples of a frame that was not flushed into a chunk
C9_Witness ==
    /\ pc = "done"
    /\ frames_per_output > 0
    /\ chunk_imu # <<>>
    /\ Len(OverallCsv[1].rows) > Len(chunk_imu)
    /\ Len(ChunkCsv) > 0

(***************************************************************************)
(* C10: with frames_per_output = N > 0 the chunks are emitted with indices *)
(* 0, 1, 2, ..., chunk k holds the points and the IMU samples of frames    *)
(* k*N .. min((k+1)*N, F) - 1, and the chunk buffers hold the frames after *)
(* the last emitted chunk: they are empty right after an emission.         *)
(***************************************************************************)
C10_ChunkContents ==
    (InFile /\ frames_per_output > 0) =>
        /\ Len(ChunkLas) = chunk_index
        /\ Len(ChunkCsv) = chunk_index
        /\ \A m \in 1..chunk_index :
              /\ ChunkLas[m].name = <<"chunk", m - 1>>
              /\ ChunkCsv[m].name = <<"imu_chunk", m - 1>>
              /\ ChunkLas[m].rows =
                    FlatPoints(ChunkFrames(frame_log, m - 1,
                                           frames_per_output))
              /\ ChunkCsv[m].rows =
                    FlatImu(ChunkFrames(frame_log, m - 1, frames_per_output))
        /\ chunk_points =
              FlatPoints(SubSeq(frame_log,
                                chunk_index * frames_per_output + 1,
                                Len(frame_log)))
        /\ chunk_imu =
              FlatImu(SubSeq(frame_log, chunk_index * frames_per_output + 1,
                             Len(frame_log)))

\* two chunks, the second one cut short by the end of the file
C10_Witness ==
    /\ pc = "done"
    /\ frames_per_output = 2
    /\ total_frames = 3
    /\ chunk_index = 2
    /\ ChunkLas[1].rows # <<>>
    /\ ChunkLas[2].rows # <<>>
    /\ ChunkLas[1].rows # ChunkLas[2].rows

(***************************************************************************)
(* Vocabulary of the properties on packages                                *)
(***************************************************************************)
\* the dataType of the package that begins at offset o
TypeAt(o) == data[o + 10 + 1]

\* the packages of the current file with a dataType outside {2, 4, 6, 7}
UnknownPackages ==
    SelectSeq(package_log, LAMBDA e : TypeAt(e.offset) \notin {2, 4, 6, 7})

\* the calls of the current file that report a skipped package.  The las
\* and csv calls are all the code hands to its collaborators, and none of
\* its progress messages names a package.
SkipReports == SelectSeq(FileOutputs, LAMBDA o : o.fn = "skip")

\* the payload sizes by dataType, as the specification tabulates them
PayloadSizeOf(data_type) ==
    CASE data_type = 2 -> 96 * 14
      [] data_type = 4 -> 48 * 28
      [] data_type = 7 -> 30 * 42
      [] data_type = 6 -> 24
      [] OTHER -> 24

\* the dataType-6 packages of the frame process_frame is working on
FrameImuPackages ==
    SelectSeq(package_log,
              LAMBDA e : e.frame = total_frames /\ TypeAt(e.offset) = 6)

FramePackages == SelectSeq(package_log, LAMBDA e : e.frame = total_frames)

\* the 8 timestamp bytes of the package at o, read byte by byte
RawTimestamp(o) ==
    IF (\E b \in 4..7 : data[o + 11 + b + 1] # 0) \/ data[o + 11 + 3 + 1] >= 64
    THEN Huge
    ELSE data[o + 11 + 1] + 256 * data[o + 11 + 2]
           + 65536 * data[o + 11 + 3] + 16777216 * data[o + 11 + 4]

(***************************************************************************)
(* C11: a package of a dataType outside {2, 4, 6, 7} is skipped over 24    *)
(* payload bytes and yields nothing, and a file that ends holds one        *)
(* recorded skip for each such package.                                    *)
(***************************************************************************)
C11_SkipsRecorded ==
    /\ (AfterPackage /\ LastDataType \notin {2, 4, 6, 7})
           => /\ offset = package_offset + PackageHeaderSize + 24
              /\ pts = <<>>
              /\ imu = None
    /\ pc = "done" => Len(SkipReports) = Len(UnknownPackages)

(***************************************************************************)
(* C12: process_package advances the offset by its header plus a payload   *)
(* size fixed by the dataType, whatever the number of points it returns.   *)
(* The claim counts 16 header bytes; the header read by lines 16-33 has    *)
(* 19 bytes.                                                               *)
(***************************************************************************)
C12_AdvanceHeader16 ==
    AfterPackage => offset = package_offset + 16 + PayloadSizeOf(LastDataType)

C12_Advance ==
    AfterPackage => offset = package_offset + 19 + PayloadSizeOf(LastDataType)

\* a point package of sentinels only: no point is appended
C12_Witness ==
    /\ AfterPackage
    /\ LastDataType \in {2, 4, 7}
    /\ pts = <<>>
    /\ frame_points = <<>>

(***************************************************************************)
(* C13: once the header is parsed the offset of the traversal never        *)
(* decreases, whatever the frame prefixes declare.                         *)
(***************************************************************************)
C13_OffsetMonotone ==
    [][(pc \in {"loop", "frame", "final"}) => (offset' >= offset)]_vars

\* a frame has returned beyond the end its prefix declares
C13_Witness ==
    /\ pc = "loop"
    /\ frame_log # <<>>
    /\ next_offset < offset
    /\ package_log # <<>>

(***************************************************************************)
(* C14: when fewer than 24 bytes remain where a frame prefix would be      *)
(* read, the traversal stops without error and without a further frame,    *)
(* and the pending chunk and the overall IMU are emitted as at a frame     *)
(* boundary: every frame lies in an emitted chunk.                         *)
(***************************************************************************)
C14_GracefulEnd ==
    (pc = "done" /\ offset < Len(data)) =>
        /\ exc = "none"
        /\ Len(frame_log) = total_frames
        /\ Len(OverallCsv) = 1
        /\ frames_per_output > 0 =>
              Len(ChunkLas) * frames_per_output >= total_frames

(***************************************************************************)
(* C15: process_package returns an IMU sample exactly for dataType 6, then *)
(* with no points and with the timestamp of the package header; the IMU    *)
(* list of a frame has one entry per dataType-6 package, in package order. *)
(***************************************************************************)
C15_ImuOnlyType6 ==
    /\ AfterPackage =>
          /\ (imu # None) <=> (LastDataType = 6)
          /\ LastDataType = 6 =>
                /\ pts = <<>>
                /\ Len(imu) = 7
                /\ imu[1] = RawTimestamp(package_offset)
    /\ pc = "frame" =>
          /\ Len(frame_imu) = Len(FrameImuPackages)
          /\ \A i \in 1..Len(frame_imu) :
                frame_imu[i][1] = RawTimestamp(FrameImuPackages[i].offset)

\* two IMU packages around an unrecognized one
C15_Witness ==
    /\ pc = "frame"
    /\ Len(FramePackages) = 3
    /\ Len(frame_imu) = 2
    /\ frame_imu[1][1] # frame_imu[2][1]
    /\ frame_imu[1][1] # 0

(***************************************************************************)
(* C16: the traversal of every file ends, by finishing or by raising, for  *)
(* any declared nextOffset: reading a frame prefix moves the offset        *)
(* forward by at least 24 and a process_package call that returns by at    *)
(* least 40, no step of the traversal moves it back, and the offset stays  *)
(* below a limit fixed by the buffer, so the numbers of frames and of      *)
(* packages of a file are bounded and no state of either loop repeats.     *)
(***************************************************************************)
\* the largest offset a traversal of the buffer can reach: the end of the
\* device table, or one point payload past the end of the buffer
OffsetLimit ==
    IF 24 + 4 + 1 + device_count * DeviceInfoSize > Len(data) + 96 * 14
    THEN 24 + 4 + 1 + device_count * DeviceInfoSize
    ELSE Len(data) + 96 * 14

C16_Terminates ==
    /\ [](InFile =>
            /\ 24 * total_frames + 40 * Len(package_log) <= offset
            /\ offset <= OffsetLimit)
    /\ [][/\ (pc = "loop" /\ pc' = "frame") => (offset' >= offset + 24)
          /\ (package_log' # package_log /\ pc = "frame")
                => (offset' >= offset + 40)
          /\ (pc \in {"loop", "frame"} /\ pc' \in {"loop", "frame"})
                => (<<offset', total_frames', Len(package_log')>>
                       # <<offset, total_frames, Len(package_log)>>
                    \/ pc' # pc)]_vars

\* the program has ended after a walk over frames with a declared end of 0
C16_Witness ==
    /\ pc \in {"exit", "crashed"}
    /\ total_frames > MaxFrames
    /\ next_offset = 0

====
